---- MODULE Spec2Model ----
(***************************************************************************)
(* fs-ledger: conversion of a Funding Societies statement table into       *)
(* ledger postings (src/main.rs).  Strings are sequences of one-character  *)
(* strings, so that the prefix, suffix, substring, split and trim          *)
(* operations of the program are computed character by character.          *)
(***************************************************************************)
EXTENDS Integers, Sequences, FiniteSets, TLC

---------------------------------------------------------------------------
(* String literals and constants of the program *)

ASSET == <<"a","s","s","e","t","s",":","f","u","n","d","i","n","g","s","o","c","i","e","t","i","e","s">>
FUNDS == <<"a","s","s","e","t","s",":","f","u","n","d","s",":","f","u","n","d","i","n","g","s","o","c","i","e","t","i","e","s">>
BANK == <<"a","s","s","e","t","s",":","b","a","n","k",":","p","b","e">>
INCOME == <<"i","n","c","o","m","e",":","i","n","t","e","r","e","s","t">>
EXPENSE == <<"e","x","p","e","n","s","e","s",":","s","e","r","v","i","c","e">>
COMMODITY == <<"M","Y","R">>
StrDeposit == <<"D","e","p","o","s","i","t">>
StrWithdrawal == <<"W","i","t","h","d","r","a","w","a","l">>
StrFundingSocieties == <<"F","u","n","d","i","n","g"," ","S","o","c","i","e","t","i","e","s">>
StrInvested == <<"i","n","v","e","s","t","e","d">>
StrInto == <<"i","n","t","o"," ">>
StrRepaymentEnd == <<"r","e","p","a","y","m","e","n","t",")">>
StrRevert == <<"R","e","v","e","r","t"," ">>
StrStar == <<" ","*"," ">>
StrSemi == <<" "," ",";"," ">>
StrColon == <<":"," ">>
StrBars == <<" ","|","|"," ">>
StrAdjustmentFor == <<"A","d","j","u","s","t","m","e","n","t"," ","f","o","r"," ","i","n","v","e","s","t","m","e","n","t"," ","t","o"," ">>
StrAdjustment == <<"A","d","j","u","s","t","m","e","n","t">>
StrZero == <<"0",".","0","0">>
StrParenZero == <<"(","0",".","0","0",")">>
StrServiceFee == <<"S","e","r","v","i","c","e"," ","F","e","e">>
StrInterest == <<"I","n","t","e","r","e","s","t">>
StrLateInterestFee == <<"L","a","t","e"," ","I","n","t","e","r","e","s","t"," ","F","e","e">>
StrEarlyPaymentFee == <<"E","a","r","l","y"," ","P","a","y","m","e","n","t"," ","F","e","e">>
StrReturns == <<"R","e","t","u","r","n","s">>
StrLateReturnsFee == <<"L","a","t","e"," ","R","e","t","u","r","n","s"," ","F","e","e">>
StrPrincipal == <<"P","r","i","n","c","i","p","a","l">>
LINE_WIDTH == 62
INDENT_WIDTH == 8

---------------------------------------------------------------------------
(* Statement text used as input: dates, titles, amounts *)

Date1 == <<"2","0","2","4","-","0","1","-","1","0">>
Date2 == <<"2","0","2","4","-","0","1","-","1","1">>
TitleRepayment == <<"X","X","X","X","-","0","0","0","0","0","0","0","0"," ","(","1"," ","o","f"," ","1"," ","r","e","p","a","y","m","e","n","t",")">>
TitleRevert == <<"R","e","v","e","r","t"," ","X","X","X","X","-","0","0","0","0","0","0","0","0"," ","(","1"," ","o","f"," ","1"," ","r","e","p","a","y","m","e","n","t",")">>
TitleInvested == <<"A","u","t","o"," ","I","n","v","e","s","t","m","e","n","t",":"," ","i","n","v","e","s","t","e","d"," ","5","0","0"," ","i","n","t","o"," ","A","B","C","D","-","1","2","3","4","5","6","7","8">>
TitleAdjustment == <<"A","d","j","u","s","t","m","e","n","t"," ","f","o","r"," ","i","n","v","e","s","t","m","e","n","t"," ","t","o"," ","A","B","C","D","-","1","2","3","4","5","6","7","8">>
TitleWithdrawal == <<"W","i","t","h","d","r","a","w","a","l"," ","t","o"," ","b","a","n","k">>
TitleNoParen == <<"L","a","t","e"," ","r","e","p","a","y","m","e","n","t",")">>
CmtBonus == <<"B","o","n","u","s">>
Amt100 == <<"1","0","0",".","0","0">>
Amt250 == <<"2","5","0",".","0","0">>
Amt500 == <<"5","0","0",".","0","0">>
Amt5 == <<"5",".","0","0">>
ParenAmt250 == <<"(","2","5","0",".","0","0",")">>
ParenAmt500 == <<"(","5","0","0",".","0","0",")">>
ParenAmt5 == <<"(","5",".","0","0",")">>
AmtLong == <<"1","0","0",",","0","0","0",",","0","0","0",",","0","0","0",",","0","0","0",",","0","0","0",".","0","0">>
TitleWrappedCmt == <<"X","X","X","X","-","0","0","0","0","0","0","0","0"," ","(","1"," ","o","f"," ","1"," ","r","e","p","a","y","m","e","n","t",")"," ","|","|"," ","E","a","r","l","y"," ","P","a","y","m","e","n","t">>
ContFee == <<"F","e","e">>
ContBarsInterest == <<"|","|"," ","I","n","t","e","r","e","s","t">>
TitleWithdrawalTo == <<"W","i","t","h","d","r","a","w","a","l"," ","t","o">>
ContBankAcc == <<"b","a","n","k"," ","a","c","c","."," ","1","2","3","4">>
TitleWithdrawalInvested == <<"W","i","t","h","d","r","a","w","a","l"," ","o","f"," ","i","n","v","e","s","t","e","d"," ","f","u","n","d","s">>
Total900 == <<"9","0","0",".","0","0">>
Total1000 == <<"1",",","0","0","0",".","0","0">>
JunkLine == <<"P","a","g","e"," ","2"," ","o","f"," ","2">>
ExpectedHeaderRepayment == <<"2","0","2","4","-","0","1","-","1","0"," ","*"," ","X","X","X","X","-","0","0","0","0","0","0","0","0"," "," ",";"," ","1"," ","o","f"," ","1"," ","r","e","p","a","y","m","e","n","t">>
ExpectedHeaderInvested == <<"2","0","2","4","-","0","1","-","1","0"," ","*"," ","A","B","C","D","-","1","2","3","4","5","6","7","8"," "," ",";"," ","A","u","t","o"," ","I","n","v","e","s","t","m","e","n","t">>
NarrationInvested == <<"A","B","C","D","-","1","2","3","4","5","6","7","8">>
CommentInvested == <<"A","u","t","o"," ","I","n","v","e","s","t","m","e","n","t">>

---------------------------------------------------------------------------
(* Bounds of the model *)

MaxRows == 2

---------------------------------------------------------------------------
(* String operations of the Rust standard library, as the program uses them *)

\* the positions at which p occurs in s
Occurrences(s, p) ==
    {i \in 1..(Len(s) - Len(p) + 1) : SubSeq(s, i, i + Len(p) - 1) = p}

\* position of the first occurrence of p in s, 0 if none (str::find)
Find(s, p) ==
    LET occ == Occurrences(s, p)
    IN  IF occ = {} THEN 0 ELSE CHOOSE i \in occ : \A j \in occ : i <= j

\* position of the last occurrence of p in s, 0 if none (str::rfind)
RFind(s, p) ==
    LET occ == Occurrences(s, p)
    IN  IF occ = {} THEN 0 ELSE CHOOSE i \in occ : \A j \in occ : i >= j

Contains(s, p) == Find(s, p) # 0

StartsWith(s, p) == Len(s) >= Len(p) /\ SubSeq(s, 1, Len(p)) = p

EndsWith(s, p) == Len(s) >= Len(p) /\ SubSeq(s, Len(s) - Len(p) + 1, Len(s)) = p

RECURSIVE TrimStartMatches(_, _)
TrimStartMatches(s, p) ==
    IF Len(p) > 0 /\ StartsWith(s, p)
    THEN TrimStartMatches(SubSeq(s, Len(p) + 1, Len(s)), p)
    ELSE s

RECURSIVE TrimEndMatches(_, _)
TrimEndMatches(s, p) ==
    IF Len(p) > 0 /\ EndsWith(s, p)
    THEN TrimEndMatches(SubSeq(s, 1, Len(s) - Len(p)), p)
    ELSE s

\* s.split(p).next().unwrap(): the text before the first p, all of s if none
SplitFirst(s, p) ==
    LET i == Find(s, p) IN IF i = 0 THEN s ELSE SubSeq(s, 1, i - 1)

\* s.rsplit(p).next().unwrap(): the text after the last p, all of s if none
RsplitFirst(s, p) ==
    LET i == RFind(s, p) IN IF i = 0 THEN s ELSE SubSeq(s, i + Len(p), Len(s))

\* s.rsplitn(2, p): <<text after the last p, text before it>>, or <<s>> if none
Rsplitn2(s, p) ==
    LET i == RFind(s, p)
    IN  IF i = 0 THEN <<s>>
        ELSE <<SubSeq(s, i + Len(p), Len(s)), SubSeq(s, 1, i - 1)>>

\* s.split_once(p): <<text before the first p, text after it>>, or <<>> if none
SplitOnce(s, p) ==
    LET i == Find(s, p)
    IN  IF i = 0 THEN <<>>
        ELSE <<SubSeq(s, 1, i - 1), SubSeq(s, i + Len(p), Len(s))>>

Last(s) == s[Len(s)]

---------------------------------------------------------------------------
(* Option<Row> *)

None == [some |-> FALSE]

Some(r) == [some |-> TRUE, val |-> r]

---------------------------------------------------------------------------
(* extract_row: reads one row off the line cursor.                         *)
(* Result: kind "some" with the row, "none" when the lines run out (every  *)
(* `?`), "panic" when the date assertion fails; pos is the cursor after    *)
(* the call and text the lines, with a title that was merged in place.     *)

\* the last line of the row is left to the next call
ExtractRowTailShort(t, date, title, dr, q) ==
    LET n     == Len(t)
        parts == SplitOnce(title, StrBars)
        ttl   == IF parts = <<>> THEN title ELSE parts[1]
        cmt   == IF parts = <<>> THEN <<>> ELSE parts[2]
    IN  IF q + 1 > n
        THEN [kind |-> "none", pos |-> n + 1]
        ELSE [kind |-> "some", pos |-> q + 1,
              row |-> [date |-> date, title |-> ttl, cmt |-> cmt,
                       dr |-> dr, cr |-> t[q], total |-> t[q + 1]]]

ExtractRowTail(t, date, title, dr, q) ==
    LET n     == Len(t)
        parts == SplitOnce(title, StrBars)
        ttl   == IF parts = <<>> THEN title ELSE parts[1]
        cmt   == IF parts = <<>> THEN <<>> ELSE parts[2]
    IN  IF q + 1 > n
        THEN [kind |-> "none", pos |-> n + 1]
        ELSE [kind |-> "some", pos |-> q + 2,
              row |-> [date |-> date, title |-> ttl, cmt |-> cmt,
                       dr |-> dr, cr |-> t[q], total |-> t[q + 1]]]

ExtractRow(t, p) ==
    LET n == Len(t)
    IN  IF p > n THEN [kind |-> "none", pos |-> p, text |-> t]
        ELSE IF ~Contains(t[p], <<"-">>) THEN [kind |-> "panic", pos |-> p + 1, text |-> t]
        ELSE IF p + 2 > n THEN [kind |-> "none", pos |-> n + 1, text |-> t]
        ELSE IF Contains(t[p + 2], <<".">>)
             THEN ExtractRowTail(t, t[p], t[p + 1], t[p + 2], p + 3) @@ [text |-> t]
             ELSE \* line too long broken into next line, merged back
                  LET merged == t[p + 1] \o <<" ">> \o t[p + 2]
                      t2     == [t EXCEPT ![p + 1] = merged]
                  IN  IF p + 3 > n THEN [kind |-> "none", pos |-> n + 1, text |-> t2]
                      ELSE ExtractRowTail(t, t[p], merged, t[p + 3], p + 4) @@ [text |-> t2]

---------------------------------------------------------------------------
(* header: the header line of a transaction, or a panic of unwrap()        *)

\* the branch for "invested" sets the comment to the text before ": "
HeaderCommentInvested(title) ==
    IF title = StrDeposit \/ StartsWith(title, StrWithdrawal)
    THEN IF title # <<>> THEN title ELSE <<>>
    ELSE IF Contains(title, StrInvested) THEN SplitFirst(title, <<":", " ">>)
    ELSE IF EndsWith(title, StrRepaymentEnd)
         THEN TrimEndMatches(Rsplitn2(title, <<"(">>)[1], <<")">>)
    ELSE <<>>

HeaderComment(title) ==
    IF title = StrDeposit \/ StartsWith(title, StrWithdrawal)
    THEN IF title # <<>> THEN title ELSE <<>>
    ELSE IF Contains(title, StrInvested) THEN <<>>
    ELSE IF EndsWith(title, StrRepaymentEnd)
         THEN TrimEndMatches(Rsplitn2(title, <<"(">>)[1], <<")">>)
    ELSE <<>>

HeaderPanics(title) ==
    /\ ~(title = StrDeposit \/ StartsWith(title, StrWithdrawal))
    /\ ~Contains(title, StrInvested)
    /\ EndsWith(title, StrRepaymentEnd)
    /\ Len(Rsplitn2(title, <<"(">>)) < 2

HeaderTitle(title) ==
    IF title = StrDeposit \/ StartsWith(title, StrWithdrawal) THEN StrFundingSocieties
    ELSE IF Contains(title, StrInvested) THEN RsplitFirst(title, StrInto)
    ELSE IF EndsWith(title, StrRepaymentEnd)
         THEN TrimStartMatches(Rsplitn2(title, <<"(">>)[2], StrRevert)
    ELSE TrimStartMatches(title, StrRevert)

\* which arm of the if of lines 160-175 takes the title
HeaderShape(title) ==
    IF title = StrDeposit \/ StartsWith(title, StrWithdrawal) THEN "institution"
    ELSE IF Contains(title, StrInvested) THEN "invested"
    ELSE IF EndsWith(title, StrRepaymentEnd) THEN "repayment"
    ELSE "other"

header(date, title) ==
    LET comment == HeaderComment(title)
        first   == date \o StrStar \o HeaderTitle(title)
    IN  [kind |-> "header",
         text |-> IF comment # <<>> THEN first \o StrSemi \o comment ELSE first]

\* balance: the asset line with the running total
balance(total) ==
    [kind |-> "balance", acc |-> ASSET, total |-> total,
     pad |-> LINE_WIDTH - INDENT_WIDTH - Len(ASSET) + Len(COMMODITY) + 1]

\* pay: one posting line
\* pad is a usize: below zero the subtraction panics in a build with overflow
\* checks and wraps to 2^64 + pad in a build without them; the record keeps
\* the difference itself, a negative pad stands for the wrapped value
pay(acc, sign, amt, cmt) ==
    [kind |-> "pay", acc |-> acc, sign |-> sign, amt |-> amt, cmt |-> cmt,
     pad |-> LINE_WIDTH - INDENT_WIDTH - Len(acc) - Len(sign) - Len(amt) - 1]

\* the empty line that separates transactions
BlankLine == [kind |-> "blank"]

---------------------------------------------------------------------------
(* The per-comment posting branch of main *)

StripParens(s) == TrimEndMatches(TrimStartMatches(s, <<"(">>), <<")">>)

\* the two arms of the match give each other's sign
SignAmtSwapped(dr, cr) ==
    IF cr = StrZero THEN <<<<"-">>, dr>>
    ELSE IF dr = StrZero THEN <<<<>>, cr>>
    ELSE <<>>

\* match (dr, cr): <<sign, amt>>, or <<>> for unreachable!()
SignAmt(dr, cr) ==
    IF cr = StrZero THEN <<<<>>, dr>>
    ELSE IF dr = StrZero THEN <<<<"-">>, cr>>
    ELSE <<>>

KnownComments ==
    {StrServiceFee, StrInterest, StrLateInterestFee, StrEarlyPaymentFee,
     StrReturns, StrLateReturnsFee, StrPrincipal}

\* "Late Returns Fee" is missing from the income arm and "Principal" posts
\* to the income account
AccountOfWrongArm(cmt) ==
    IF cmt = StrServiceFee THEN EXPENSE
    ELSE IF cmt \in {StrInterest, StrLateInterestFee, StrEarlyPaymentFee,
                     StrReturns} THEN INCOME
    ELSE IF cmt = StrLateReturnsFee THEN FUNDS
    ELSE IF cmt = StrPrincipal THEN INCOME
    ELSE <<>>

\* the default arm guesses the income account instead of failing
AccountOfDefaultIncome(cmt) ==
    IF cmt = StrServiceFee THEN EXPENSE
    ELSE IF cmt = StrPrincipal THEN FUNDS
    ELSE INCOME

\* match cmt: the account, or <<>> for unimplemented!()
AccountOf(cmt) ==
    IF cmt = StrServiceFee THEN EXPENSE
    ELSE IF cmt \in {StrInterest, StrLateInterestFee, StrEarlyPaymentFee,
                     StrReturns, StrLateReturnsFee} THEN INCOME
    ELSE IF cmt = StrPrincipal THEN FUNDS
    ELSE <<>>

---------------------------------------------------------------------------
(* Input: the table lines returned by extract_text *)

TitleLine(title, cmt) == IF cmt = <<>> THEN title ELSE title \o StrBars \o cmt

RowLines(date, title, cmt, dr, cr, total) == <<date, TitleLine(title, cmt), dr, cr, total>>

\* the lines of a row whose title line is too long and goes on in the next line
WrappedLines(date, first, cont, dr, cr, total) == <<date, first, cont, dr, cr, total>>

Fixtures ==
    << RowLines(Date1, TitleRepayment, StrPrincipal, StrParenZero, Amt100, Total900),
      RowLines(Date1, TitleRepayment, StrInterest, StrParenZero, Amt5, Total900),
      RowLines(Date1, TitleRepayment, StrServiceFee, ParenAmt5, StrZero, Total900),
      RowLines(Date2, TitleRepayment, StrLateInterestFee, StrParenZero, Amt5, Total1000),
      RowLines(Date1, TitleRevert, StrEarlyPaymentFee, Amt5, StrParenZero, Total900),
      RowLines(Date1, TitleRepayment, StrReturns, StrZero, Amt5, Total900),
      RowLines(Date1, TitleRepayment, StrLateReturnsFee, StrParenZero, Amt5, Total900),
      RowLines(Date1, TitleRepayment, CmtBonus, StrParenZero, Amt100, Total900),
      RowLines(Date1, TitleRepayment, <<>>, StrParenZero, Amt100, Total900),
      RowLines(Date1, TitleRepayment, StrPrincipal, ParenAmt5, Amt100, Total900),
      RowLines(Date1, StrDeposit, <<>>, StrParenZero, Amt250, Total1000),
      RowLines(Date1, TitleWithdrawal, <<>>, ParenAmt250, StrZero, Total900),
      RowLines(Date1, TitleInvested, <<>>, ParenAmt500, StrZero, Total900),
      RowLines(Date1, TitleAdjustment, <<>>, StrParenZero, Amt5, Total900),
      RowLines(Date1, TitleAdjustment, <<>>, ParenAmt5, StrZero, Total900),
      RowLines(Date1, TitleNoParen, StrPrincipal, StrParenZero, Amt100, Total900),
      RowLines(Date1, TitleRepayment, StrPrincipal, StrParenZero, AmtLong, Total900),
      WrappedLines(Date1, TitleWrappedCmt, ContFee, StrParenZero, Amt5, Total900),
      WrappedLines(Date1, TitleRepayment, ContBarsInterest, StrParenZero, Amt5, Total900),
      WrappedLines(Date1, TitleWithdrawalTo, ContBankAcc, ParenAmt250, StrZero, Total900),
      RowLines(Date1, TitleWithdrawalInvested, <<>>, ParenAmt250, StrZero, Total900),
      RowLines(Date1, TitleInvested, <<>>, StrParenZero, Amt500, Total900) >>

\* the rows of the tables of Spec
MainFixtures == 1..17

\* lines left over after the last complete row: the first lines of a row, or a
\* line that is no date
Tails ==
    { SubSeq(RowLines(Date2, TitleRepayment, StrPrincipal, StrParenZero, Amt100, Total900), 1, k) :
        k \in 0..4 } \cup { <<JunkLine>> }

\* the lines of the rows rs, each the index of a fixture
RECURSIVE Flatten(_)
Flatten(rs) == IF rs = <<>> THEN <<>> ELSE Fixtures[Head(rs)] \o Flatten(Tail(rs))

---------------------------------------------------------------------------
(* State of main *)

VARIABLES
    rows,   \* the complete rows of the table, each an index into Fixtures
    text,   \* let mut text = extract_text(..)?: the table lines
    pos,    \* let mut lines = text.iter_mut(): index of the next line
    row,    \* let mut row: the row read last, an Option
    block,  \* the row the loop body works on
    out,    \* buf: the lines written to the sink
    pc,     \* position in main
    err,    \* the panic that ended the run, "" if none
    pages,     \* doc.get_pages(): for each page number what extract_text gives
    results,   \* the slots of the parallel map, one per page
    finished,  \* the page numbers in the order their extractions finished
    pdf_text,  \* let mut pdf_text: PdfText, the lines and the errors
    reported,  \* the error lines pdf2text has printed
    pdf,       \* let mut text = pdf2text(..)?: the lines of the document
    cache      \* the cache file /tmp/<name>.json, an Option of lines

srcvars == <<pages, results, finished, pdf_text, reported, pdf, cache>>

vars == <<rows, text, pos, row, block, out, pc, err, srcvars>>

\* the document has been read and extract_text has returned the table t
SourceDone(t) ==
    /\ pages = <<>>
    /\ results = <<>>
    /\ finished = <<>>
    /\ pdf_text = [text |-> <<>>, errors |-> <<>>]
    /\ reported = <<>>
    /\ pdf = <<>>
    /\ cache = Some(t)

NoBlock == [date |-> <<>>, title |-> <<>>, cmt |-> <<>>, dr |-> <<>>, cr |-> <<>>, total |-> <<>>]

\* main at line 266, the table made of at most n rows out of the fixtures fx
\* and a tail out of tls
TableInit(fx, tls, n) ==
    /\ \E k \in 0..n : rows \in [1..k -> fx]
    /\ \E tl \in tls : text = Flatten(rows) \o tl
    /\ pos = 1
    /\ row = None
    /\ block = NoBlock
    /\ out = <<>>
    /\ pc = "start"
    /\ err = ""
    /\ SourceDone(text)

Init == TableInit(MainFixtures, Tails, MaxRows)

\* row = extract_row(&mut lines), then on to label `to` unless it panicked
ReadRow(to) ==
    \E r \in {ExtractRow(text, pos)} :
        /\ text' = r.text
        /\ pos' = r.pos
        /\ row' = IF r.kind = "some" THEN Some(r.row) ELSE None
        /\ pc' = IF r.kind = "panic" THEN "panicked" ELSE to
        /\ err' = IF r.kind = "panic" THEN "assertion failed: date.contains('-')" ELSE err

\* line 267: the first row
ReadFirstRow ==
    /\ pc = "start"
    /\ ReadRow("head")
    /\ UNCHANGED <<rows, block, out, srcvars>>

\* line 268, row is None: Ok(())
Finish ==
    /\ pc = "head"
    /\ ~row.some
    /\ pc' = "done"
    /\ UNCHANGED <<rows, text, pos, row, block, out, err, srcvars>>

\* lines 269-270: header and balance line of the transaction of row b
HeaderLines(b) == <<header(b.date, b.title), balance(b.total)>>

\* which branch of lines 271-281 takes row b
Branch(b) ==
    IF b.cr = StrZero /\ Contains(b.title, StrInvested) THEN "invested"
    ELSE IF b.title = StrDeposit THEN "deposit"
    ELSE IF StartsWith(b.title, StrWithdrawal) THEN "withdrawal"
    ELSE IF StartsWith(b.title, StrAdjustmentFor) THEN "adjustment"
    ELSE "default"

\* the posting of the four single-posting branches
SinglePosting(b) ==
    CASE Branch(b) = "invested"   -> pay(FUNDS, <<>>, b.dr, SplitFirst(b.title, StrColon))
      [] Branch(b) = "deposit"    -> pay(BANK, <<"-">>, b.cr, b.title)
      [] Branch(b) = "withdrawal" -> pay(BANK, <<>>, b.dr, b.title)
      [] Branch(b) = "adjustment" -> pay(FUNDS, <<"-">>, b.cr, StrAdjustment)

\* line 268 with a row, header() panics on unwrap(): nothing is written
HeaderPanic ==
    /\ pc = "head"
    /\ row.some
    /\ HeaderPanics(row.val.title)
    /\ block' = row.val
    /\ pc' = "panicked"
    /\ err' = "called Option::unwrap() on a None value"
    /\ UNCHANGED <<rows, text, pos, row, out, srcvars>>

\* lines 268-273: an "invested" title with credit "0.00"
PayInvested ==
    /\ pc = "head"
    /\ row.some
    /\ ~HeaderPanics(row.val.title)
    /\ Branch(row.val) = "invested"
    /\ block' = row.val
    /\ out' = out \o HeaderLines(row.val) \o <<SinglePosting(row.val)>>
    /\ pc' = "sep"
    /\ UNCHANGED <<rows, text, pos, row, err, srcvars>>

\* lines 268-270, 274-275: the title "Deposit"
PayDeposit ==
    /\ pc = "head"
    /\ row.some
    /\ ~HeaderPanics(row.val.title)
    /\ Branch(row.val) = "deposit"
    /\ block' = row.val
    /\ out' = out \o HeaderLines(row.val) \o <<SinglePosting(row.val)>>
    /\ pc' = "sep"
    /\ UNCHANGED <<rows, text, pos, row, err, srcvars>>

\* lines 268-270, 276-277: a title that starts with "Withdrawal"
PayWithdrawal ==
    /\ pc = "head"
    /\ row.some
    /\ ~HeaderPanics(row.val.title)
    /\ Branch(row.val) = "withdrawal"
    /\ block' = row.val
    /\ out' = out \o HeaderLines(row.val) \o <<SinglePosting(row.val)>>
    /\ pc' = "sep"
    /\ UNCHANGED <<rows, text, pos, row, err, srcvars>>

\* lines 268-270, 278-280: an adjustment title, the assertion on the debit holds
PayAdjustment ==
    /\ pc = "head"
    /\ row.some
    /\ ~HeaderPanics(row.val.title)
    /\ Branch(row.val) = "adjustment"
    /\ row.val.dr = StrParenZero
    /\ block' = row.val
    /\ out' = out \o HeaderLines(row.val) \o <<SinglePosting(row.val)>>
    /\ pc' = "sep"
    /\ UNCHANGED <<rows, text, pos, row, err, srcvars>>

\* line 279, the assertion fails: header and balance are written, no posting
AdjustmentPanic ==
    /\ pc = "head"
    /\ row.some
    /\ ~HeaderPanics(row.val.title)
    /\ Branch(row.val) = "adjustment"
    /\ row.val.dr # StrParenZero
    /\ block' = row.val
    /\ out' = out \o HeaderLines(row.val)
    /\ pc' = "panicked"
    /\ err' = "Only negative adjustment supported"
    /\ UNCHANGED <<rows, text, pos, row, srcvars>>

\* lines 268-283: header and balance, then into the loop over the rows of
\* the transaction
BeginDefault ==
    /\ pc = "head"
    /\ row.some
    /\ ~HeaderPanics(row.val.title)
    /\ Branch(row.val) = "default"
    /\ block' = row.val
    /\ out' = out \o HeaderLines(row.val)
    /\ pc' = "loop"
    /\ UNCHANGED <<rows, text, pos, row, err, srcvars>>

\* lines 284-290 or 292-298 panic: no posting is written
PostingPanic ==
    /\ pc = "loop"
    /\ LET sa == SignAmt(StripParens(block.dr), StripParens(block.cr))
       IN  /\ sa = <<>> \/ AccountOf(block.cmt) = <<>>
           /\ err' = IF sa = <<>> THEN "both sides non-zero" ELSE "unknown cmt"
    /\ pc' = "panicked"
    /\ UNCHANGED <<rows, text, pos, row, block, out, srcvars>>

\* the call of pay() the run is about to make: the one of a single-posting
\* branch at the head of a transaction, the one of line 299 in the loop
PendingPay ==
    IF pc = "head"
    THEN SinglePosting(row.val)
    ELSE LET sa == SignAmt(StripParens(block.dr), StripParens(block.cr))
         IN  pay(AccountOf(block.cmt), sa[1], sa[2], block.cmt)

\* does the run reach a call of pay() from this state
PayPending ==
    \/ /\ pc = "head"
       /\ row.some
       /\ ~HeaderPanics(row.val.title)
       /\ Branch(row.val) # "default"
       /\ Branch(row.val) = "adjustment" => row.val.dr = StrParenZero
    \/ /\ pc = "loop"
       /\ SignAmt(StripParens(block.dr), StripParens(block.cr)) # <<>>
       /\ AccountOf(block.cmt) # <<>>

\* line 208 in a build with overflow checks: the subtraction goes below zero
\* and pay() panics before it writes; header and balance of lines 268-269 are
\* written already. The build without the checks goes on to writeln! with
\* the wrapped pad, the outcome of the Pay actions and of Posting
PayOverflowPanic ==
    /\ PayPending
    /\ PendingPay.pad < 0
    /\ block' = IF pc = "head" THEN row.val ELSE block
    /\ out' = IF pc = "head" THEN out \o HeaderLines(row.val) ELSE out
    /\ pc' = "panicked"
    /\ err' = "attempt to subtract with overflow"
    /\ UNCHANGED <<rows, text, pos, row, srcvars>>

\* lines 284-307: one posting, then the lookahead row; the loop goes on with
\* it when date and title are the same, and is left otherwise
Posting ==
    /\ pc = "loop"
    /\ \E r \in {ExtractRow(text, pos)} :
       LET sa  == SignAmt(StripParens(block.dr), StripParens(block.cr))
           acc == AccountOf(block.cmt)
       IN  /\ sa # <<>>
           /\ acc # <<>>
           /\ out' = Append(out, pay(acc, sa[1], sa[2], block.cmt))
           /\ text' = r.text
           /\ pos' = r.pos
           /\ row' = IF r.kind = "some" THEN Some(r.row) ELSE None
           /\ err' = IF r.kind = "panic" THEN "assertion failed: date.contains('-')" ELSE err
           /\ IF r.kind = "panic"
              THEN pc' = "panicked" /\ block' = block
              ELSE IF r.kind = "some" /\ block.date = r.row.date /\ block.title = r.row.title
              THEN pc' = "loop" /\ block' = r.row
              ELSE pc' = "sep" /\ block' = block
    /\ UNCHANGED <<rows, srcvars>>

\* lines 310-314: the empty line, then the next row
EndTransaction ==
    /\ pc = "sep"
    /\ out' = Append(out, BlankLine)
    /\ ReadRow("head")
    /\ UNCHANGED <<rows, block, srcvars>>

Next ==
    \/ ReadFirstRow
    \/ Finish
    \/ HeaderPanic
    \/ PayInvested
    \/ PayDeposit
    \/ PayWithdrawal
    \/ PayAdjustment
    \/ AdjustmentPanic
    \/ BeginDefault
    \/ PostingPanic
    \/ PayOverflowPanic
    \/ Posting
    \/ EndTransaction

Spec == Init /\ [][Next]_vars

\* the rows of the tables of SpecLive: one for every action of Next, and one
\* of six lines
LiveFixtures == {1, 4, 10, 11, 12, 13, 14, 15, 16, 17, 18}

\* no line, a date alone, a line that is no date
LiveTails == {tl \in Tails : Len(tl) <= 1}

InitLive == TableInit(LiveFixtures, LiveTails, MaxRows)

\* main is one sequential thread: a step that can be taken is taken
SpecLive == InitLive /\ [][Next]_vars /\ WF_vars(Next)

---------------------------------------------------------------------------
(* main on tables with rows whose title line is broken into two lines *)

\* the rows of the tables of SpecRow: two of five lines, three of six
RowFixtures == {1, 12, 18, 19, 20}

InitRow == TableInit(RowFixtures, Tails, MaxRows)

NextRow ==
    \/ ReadFirstRow
    \/ Finish
    \/ PayWithdrawal
    \/ BeginDefault
    \/ Posting
    \/ EndTransaction

SpecRow == InitRow /\ [][NextRow]_vars

---------------------------------------------------------------------------
(* main on tables with titles that more than one test of header() and of *)
(* main() takes *)

\* the rows of the tables of SpecShape
ShapeFixtures == {1, 11, 12, 13, 21, 22}

InitShape == TableInit(ShapeFixtures, {<<>>}, MaxRows)

NextShape ==
    \/ ReadFirstRow
    \/ Finish
    \/ PayInvested
    \/ PayDeposit
    \/ PayWithdrawal
    \/ BeginDefault
    \/ PostingPanic
    \/ Posting
    \/ EndTransaction

SpecShape == InitShape /\ [][NextShape]_vars

---------------------------------------------------------------------------
(* get_pdf_text and pdf2text: the pages of the document, lines 80-134 *)

MaxPages == 3

\* errors of which pdf2text prints each one, line 125
ErrorsShown == 10

\* the text of a page as doc.extract_text gives it
PageTextHead == <<"S","t","a","t","e","m","e","n","t"," ","o","f"," ","A","c","c","o","u","n","t"," "," ","\n","B","a","l","a","n","c","e","\n","(","R","M",")","\n">>
PageTextRows == <<"2","0","2","4","-","0","1","-","1","0"," ","\n","D","e","p","o","s","i","t","\n","\n","I","m","p","o","r","t","a","n","t","!","\n"," ","\n">>

\* what the extraction of a page gives: an error, or a text
PageContents ==
    { [ok |-> FALSE], [ok |-> TRUE, text |-> PageTextHead], [ok |-> TRUE, text |-> PageTextRows] }

Whitespace == {" ", "\n", "\t", "\r"}

\* str::trim_end
RECURSIVE TrimEnd(_)
TrimEnd(s) ==
    IF s # <<>> /\ s[Len(s)] \in Whitespace THEN TrimEnd(SubSeq(s, 1, Len(s) - 1)) ELSE s

\* str::split(c): the pieces between the occurrences of c, one at least
RECURSIVE Split(_, _)
Split(s, c) ==
    LET occ == {i \in 1..Len(s) : s[i] = c}
    IN  IF occ = {} THEN <<s>>
        ELSE LET i == CHOOSE k \in occ : \A j \in occ : k <= j
             IN  <<SubSeq(s, 1, i - 1)>> \o Split(SubSeq(s, i + 1, Len(s)), c)

\* lines 95-98: the lines of the text of a page
PageLines(t) ==
    LET parts == Split(TrimEnd(t), "\n")
    IN  [i \in 1..Len(parts) |-> TrimEnd(parts[i])]

\* lines 89-99: the closure of the map on page page_num
PageResult(page_num, content) ==
    IF content.ok
    THEN [st |-> "ok", page_num |-> page_num, lines |-> PageLines(content.text)]
    ELSE [st |-> "err", page_num |-> page_num]

\* the order of the items in the Vec that collect() gives: by completion
CollectOrderFinished(fin, n) == fin

\* the order of the items in the Vec that collect() gives: the order of the
\* iterator over get_pages(), ascending page number
CollectOrder(fin, n) == [i \in 1..n |-> i]

\* lines 106-115: the loop over the items rs, into pdf_text pt
RECURSIVE ForPages(_, _)
ForPages(rs, pt) ==
    IF rs = <<>> THEN pt
    ELSE ForPages(Tail(rs),
                  IF Head(rs).st = "ok"
                  THEN [pt EXCEPT !.text = pt.text \o Head(rs).lines]
                  ELSE [pt EXCEPT !.errors = Append(pt.errors, Head(rs).page_num)])

\* extract_text at line 144, no cache file: a document of at most MaxPages
\* pages, no page taken by a thread yet
InitPdf ==
    /\ \E n \in 0..MaxPages : pages \in [1..n -> PageContents]
    /\ results = [p \in 1..Len(pages) |-> [st |-> "idle"]]
    /\ finished = <<>>
    /\ pdf_text = [text |-> <<>>, errors |-> <<>>]
    /\ reported = <<>>
    /\ pdf = <<>>
    /\ cache = None
    /\ rows = <<>>
    /\ text = <<>>
    /\ pos = 1
    /\ row = None
    /\ block = NoBlock
    /\ out = <<>>
    /\ pc = "get_pdf_text"
    /\ err = ""

\* lines 86-89: a thread of the pool takes a page
StartPage ==
    /\ pc = "get_pdf_text"
    /\ \E p \in 1..Len(pages) :
          /\ results[p].st = "idle"
          /\ results' = [results EXCEPT ![p] = [st |-> "running"]]
    /\ UNCHANGED <<rows, text, pos, row, block, out, pc, err,
                   pages, finished, pdf_text, reported, pdf, cache>>

\* lines 90-99: the extraction of a page ends, in a text or in an error
FinishPage ==
    /\ pc = "get_pdf_text"
    /\ \E p \in 1..Len(pages) :
          /\ results[p].st = "running"
          /\ results' = [results EXCEPT ![p] = PageResult(p, pages[p])]
          /\ finished' = Append(finished, p)
    /\ UNCHANGED <<rows, text, pos, row, block, out, pc, err,
                   pages, pdf_text, reported, pdf, cache>>

\* lines 101-116: every page is done; collect(), then the loop over the Vec
CollectPages ==
    /\ pc = "get_pdf_text"
    /\ \A p \in 1..Len(pages) : results[p].st \in {"ok", "err"}
    /\ LET order == CollectOrder(finished, Len(pages))
           vec   == [i \in 1..Len(order) |-> results[order[i]]]
       IN  pdf_text' = ForPages(vec, pdf_text)
    /\ pc' = "pdf2text"
    /\ UNCHANGED <<rows, text, pos, row, block, out, err,
                   pages, results, finished, reported, pdf, cache>>

\* lines 123-133: no error, or ErrorsShown and more: the count and the first
\* ErrorsShown errors are printed, the lines are returned to extract_text
Pdf2TextReturn ==
    /\ pc = "pdf2text"
    /\ pdf_text.errors = <<>> \/ Len(pdf_text.errors) >= ErrorsShown
    /\ reported' = IF pdf_text.errors = <<>> THEN reported
                   ELSE reported \o <<Len(pdf_text.errors)>>
                                 \o SubSeq(pdf_text.errors, 1, ErrorsShown)
    /\ pdf' = pdf_text.text
    /\ pc' = "extract_text"
    /\ UNCHANGED <<rows, text, pos, row, block, out, err,
                   pages, results, finished, pdf_text, cache>>

\* lines 123-125: between 1 and ErrorsShown - 1 errors: the count is
\* printed, then the slice errors[..10] panics
Pdf2TextPanic ==
    /\ pc = "pdf2text"
    /\ pdf_text.errors # <<>>
    /\ Len(pdf_text.errors) < ErrorsShown
    /\ reported' = Append(reported, Len(pdf_text.errors))
    /\ pc' = "panicked"
    /\ err' = "range end index 10 out of range for slice"
    /\ UNCHANGED <<rows, text, pos, row, block, out,
                   pages, results, finished, pdf_text, pdf, cache>>

NextPdf ==
    \/ StartPage
    \/ FinishPage
    \/ CollectPages
    \/ Pdf2TextReturn
    \/ Pdf2TextPanic

SpecPdf == InitPdf /\ [][NextPdf]_vars

---------------------------------------------------------------------------
(* extract_text: the cache and the location of the table, lines 136-153 *)

StrBalance == <<"B","a","l","a","n","c","e">>
StrRM == <<"(","R","M",")">>
StrImportant == <<"I","m","p","o","r","t","a","n","t","!">>

\* lines of a document around the table
HeaderOneLine == <<"B","a","l","a","n","c","e"," ","(","R","M",")">>
DocTitle == <<"S","t","a","t","e","m","e","n","t"," ","o","f"," ","A","c","c","o","u","n","t">>
DocFooter == <<"P","a","g","e"," ","1"," ","o","f"," ","1">>

\* the header of a document: on two lines, on one line, none, and "Balance"
\* without the line "(RM)" after it
DocHeaders == { <<StrBalance, StrRM>>, <<HeaderOneLine>>, <<>>, <<StrBalance>> }

\* the first line of a document: a title, or a banner before the header
DocTitles == { DocTitle, StrImportant }

\* the end of a document: the banner and what follows it, or no banner
DocEnds == { <<StrImportant, DocFooter>>, <<DocFooter>> }

\* the rows of the tables of SpecLocate
LocateFixtures == {1, 2, 4}

\* text.iter().position(|p| p == l), 0-based, -1 for None
Position(lines, l) ==
    LET occ == {i \in 1..Len(lines) : lines[i] = l}
    IN  IF occ = {} THEN -1 ELSE (CHOOSE i \in occ : \A j \in occ : i <= j) - 1

\* text.iter().rposition(|p| p == l), 0-based, -1 for None
RPosition(lines, l) ==
    LET occ == {i \in 1..Len(lines) : lines[i] = l}
    IN  IF occ = {} THEN -1 ELSE (CHOOSE i \in occ : \A j \in occ : i >= j) - 1

\* LocateTable that takes the table up to the last line when the document has
\* no line "Important!"
LocateTableToEnd(lines) ==
    LET start_idx == Position(lines, StrBalance) + 2
        end_idx   == IF RPosition(lines, StrImportant) = -1
                     THEN Len(lines) ELSE RPosition(lines, StrImportant)
    IN  IF Position(lines, StrBalance) = -1
        THEN [kind |-> "panic", err |-> "called Option::unwrap() on a None value"]
        ELSE IF start_idx - 1 >= Len(lines)
        THEN [kind |-> "panic", err |-> "index out of bounds"]
        ELSE IF lines[start_idx] # StrRM
        THEN [kind |-> "panic", err |-> "assertion failed: text[start_idx - 1] == (RM)"]
        ELSE IF start_idx > end_idx
        THEN [kind |-> "panic", err |-> "drain: range end out of bounds"]
        ELSE [kind |-> "ok", table |-> SubSeq(lines, start_idx + 1, end_idx)]

\* lines 145-149 on the lines of the document: the table, or the panic
LocateTable(lines) ==
    LET start_idx == Position(lines, StrBalance) + 2
        end_idx   == RPosition(lines, StrImportant)
    IN  IF Position(lines, StrBalance) = -1
        THEN [kind |-> "panic", err |-> "called Option::unwrap() on a None value"]
        ELSE IF start_idx - 1 >= Len(lines)
        THEN [kind |-> "panic", err |-> "index out of bounds"]
        ELSE IF lines[start_idx] # StrRM
        THEN [kind |-> "panic", err |-> "assertion failed: text[start_idx - 1] == (RM)"]
        ELSE IF end_idx = -1
        THEN [kind |-> "panic", err |-> "called Option::unwrap() on a None value"]
        ELSE IF start_idx > end_idx
        THEN [kind |-> "panic", err |-> "drain: range end out of bounds"]
        ELSE [kind |-> "ok", table |-> SubSeq(lines, start_idx + 1, end_idx)]

\* main at line 265: pdf2text has the lines of a document made of a title, a
\* header, at most MaxRows rows and an end; the cache file is there, from a
\* run on the same document, or is not
InitLocate ==
    /\ \E k \in 0..MaxRows : rows \in [1..k -> LocateFixtures]
    /\ \E t \in DocTitles, h \in DocHeaders, e \in DocEnds :
          pdf = <<t>> \o h \o Flatten(rows) \o e
    /\ cache \in {None, Some(Flatten(rows))}
    /\ text = <<>>
    /\ pos = 1
    /\ row = None
    /\ block = NoBlock
    /\ out = <<>>
    /\ pc = "extract_text"
    /\ err = ""
    /\ pages = <<>>
    /\ results = <<>>
    /\ finished = <<>>
    /\ pdf_text = [text |-> <<>>, errors |-> <<>>]
    /\ reported = <<>>

\* lines 140-143: the cache file opens, its lines are the table
LoadCache ==
    /\ pc = "extract_text"
    /\ cache.some
    /\ text' = cache.val
    /\ pc' = "start"
    /\ UNCHANGED <<rows, pos, row, block, out, err, srcvars>>

\* lines 144-152: no cache file; the table is cut out of the lines of the
\* document, written to the cache file and returned
LocateOk ==
    /\ pc = "extract_text"
    /\ ~cache.some
    /\ LocateTable(pdf).kind = "ok"
    /\ text' = LocateTable(pdf).table
    /\ cache' = Some(LocateTable(pdf).table)
    /\ pc' = "start"
    /\ UNCHANGED <<rows, pos, row, block, out, err, pages, results, finished, pdf_text, reported, pdf>>

\* lines 145-149 panic: nothing is written, neither cache file nor output
LocatePanic ==
    /\ pc = "extract_text"
    /\ ~cache.some
    /\ LocateTable(pdf).kind = "panic"
    /\ err' = LocateTable(pdf).err
    /\ pc' = "panicked"
    /\ UNCHANGED <<rows, text, pos, row, block, out, srcvars>>

\* extract_text, then main on the rows of LocateFixtures
NextLocate ==
    \/ LoadCache
    \/ LocateOk
    \/ LocatePanic
    \/ ReadFirstRow
    \/ Finish
    \/ BeginDefault
    \/ Posting
    \/ EndTransaction

SpecLocate == InitLocate /\ [][NextLocate]_vars


---------------------------------------------------------------------------
(* Reading the input and the output *)

\* row i of the input, as extract_row returns it
InputRow(i) == ExtractRow(Fixtures[rows[i]], 1).row

\* number of lines of the first i rows
RowEnd(i) == Len(Flatten(SubSeq(rows, 1, i)))

\* lines of the table after its last complete row
Leftover == Len(text) - RowEnd(Len(rows))

IsZero(amt) == StripParens(amt) = StrZero

\* a row no branch of main rejects
WellFormed(r) ==
    /\ ~HeaderPanics(r.title)
    /\ Branch(r) = "adjustment" => IsZero(r.dr)
    /\ Branch(r) = "default" =>
          /\ r.cmt \in KnownComments
          /\ IsZero(r.dr) # IsZero(r.cr)

AllWellFormed == \A i \in 1..Len(rows) : WellFormed(InputRow(i))

IsPay(l) == l.kind = "pay"

IsHeader(l) == l.kind = "header"

Postings == SelectSeq(out, IsPay)

LastHeader == Last(SelectSeq(out, IsHeader))

\* the posting line p carries an amount and the comment of row r
PostingOfRow(p, r) ==
    /\ p.amt \in {r.dr, r.cr, StripParens(r.dr), StripParens(r.cr)}
    /\ r.cmt # <<>> => p.cmt = r.cmt

\* lengths of the maximal runs of equal adjacent elements of ks
RECURSIVE RunLengths(_)
RunLengths(ks) ==
    IF ks = <<>> THEN <<>>
    ELSE LET rest == RunLengths(Tail(ks))
         IN  IF Len(ks) >= 2 /\ ks[1] = ks[2]
             THEN <<rest[1] + 1>> \o Tail(rest)
             ELSE <<1>> \o rest

\* number of posting lines under each header line of o
RECURSIVE TxLengths(_)
TxLengths(o) ==
    IF o = <<>> THEN <<>>
    ELSE LET prev == TxLengths(SubSeq(o, 1, Len(o) - 1))
         IN  IF IsHeader(Last(o)) THEN Append(prev, 0)
             ELSE IF IsPay(Last(o)) /\ prev # <<>>
                  THEN [prev EXCEPT ![Len(prev)] = @ + 1]
                  ELSE prev

Count(s, P(_)) == Len(SelectSeq(s, P))

---------------------------------------------------------------------------
(* C1: when the run ends in success on a table of complete well-formed     *)
(* rows, every row of the input has produced exactly one posting line, in  *)
(* input order: the row read as lookahead that closes a group starts the   *)
(* next transaction and is not skipped.                                    *)

C1_EveryRowPosted ==
    (pc = "done" /\ Leftover = 0 /\ AllWellFormed) =>
        /\ Len(Postings) = Len(rows)
        /\ \A i \in 1..Len(rows) : PostingOfRow(Postings[i], InputRow(i))

(* C2: when the run ends in success, the transactions written are the      *)
(* maximal runs of adjacent rows with the same (date, title): one header   *)
(* line and one asset line per run, and under it as many posting lines as  *)
(* the run has rows, whatever the shape of the title.                      *)

IsBalance(l) == l.kind = "balance"

C2_OneTransactionPerRun ==
    (pc = "done" /\ Leftover = 0 /\ AllWellFormed) =>
        LET keys == [i \in 1..Len(rows) |-> <<InputRow(i).date, InputRow(i).title>>]
        IN  /\ TxLengths(out) = RunLengths(keys)
            /\ Count(out, IsBalance) = Len(RunLengths(keys))

(* C3: the run never ends in success while lines of the table remain after *)
(* the last complete row.                                                  *)

C3_NoSuccessWithLeftover == pc = "done" => Leftover = 0

(* C4: a posting of the per-comment branch for a row with exactly one of   *)
(* debit and credit "0.00" (parentheses stripped) has sign "-" iff the     *)
(* debit is "0.00" and the credit is not, no sign iff the debit is not     *)
(* "0.00" and the credit is, and its amount is the non-zero side.          *)

C4_SignFollowsZeroSide ==
    [][(pc = "loop" /\ out' # out /\ IsZero(block.dr) # IsZero(block.cr)) =>
          LET p == Last(out')
          IN  /\ p.sign = <<"-">> <=> (IsZero(block.dr) /\ ~IsZero(block.cr))
              /\ p.sign = <<>> <=> (~IsZero(block.dr) /\ IsZero(block.cr))
              /\ p.amt = IF IsZero(block.dr) THEN StripParens(block.cr)
                         ELSE StripParens(block.dr)
              /\ ~IsZero(p.amt)]_vars

\* a posting with sign "-" and one without were written by the branch
C4_Witness ==
    /\ pc = "sep"
    /\ Branch(block) = "default"
    /\ Len(Postings) = 2
    /\ Postings[1].sign = <<"-">>
    /\ Postings[2].sign = <<>>

(* C5: the account of a posting of the per-comment branch follows from the *)
(* comment of the row it is written for, the row of the input that ends at *)
(* the cursor: Service Fee gives the expense account, Interest, Late       *)
(* Interest Fee, Early Payment Fee, Returns and Late Returns Fee the       *)
(* income account, Principal the funds account; the sign plays no part.    *)

CurrentRow == InputRow(CHOOSE i \in 1..Len(rows) : RowEnd(i) = pos - 1)

C5_AccountByOwnComment ==
    [][(pc = "loop" /\ out' # out) =>
          LET p   == Last(out')
              cmt == CurrentRow.cmt
          IN  /\ p.cmt = cmt
              /\ cmt = StrServiceFee => p.acc = EXPENSE
              /\ cmt \in {StrInterest, StrLateInterestFee, StrEarlyPaymentFee,
                          StrReturns, StrLateReturnsFee} => p.acc = INCOME
              /\ cmt = StrPrincipal => p.acc = FUNDS
              /\ p.acc \in {EXPENSE, INCOME, FUNDS}]_vars

\* the second row of a group was posted to another account than the first
C5_Witness ==
    /\ pc = "sep"
    /\ Len(Postings) = 2
    /\ Count(out, IsHeader) = 1
    /\ Postings[1].acc = FUNDS
    /\ Postings[2].acc = EXPENSE

(* C6: in the per-comment branch a row whose comment is not in the table   *)
(* (an empty one too), or whose debit and credit are both non-zero, ends   *)
(* the run in a panic: nothing is written for it, the cursor stays, and no *)
(* step follows a panic, so the run does not reach success.                *)

C6_UnrecognizedPostingFails ==
    [][/\ pc # "panicked"
       /\ (/\ pc = "loop"
           /\ \/ block.cmt \notin {StrServiceFee, StrInterest, StrLateInterestFee,
                                   StrEarlyPaymentFee, StrReturns, StrLateReturnsFee,
                                   StrPrincipal}
              \/ ~IsZero(block.dr) /\ ~IsZero(block.cr))
          => (pc' = "panicked" /\ out' = out /\ pos' = pos)]_vars

\* the second row of a group has an unknown comment and the run has failed
C6_Witness ==
    /\ pc = "panicked"
    /\ err = "unknown cmt"
    /\ Len(Postings) = 1
    /\ block.cmt = CmtBonus

(* C7: for a title "<X> (N of M repayment)" the header line is             *)
(* DATE * NARRATION  ; COMMENT with NARRATION the text before the trailing *)
(* " (", a leading "Revert " stripped and no trailing space, and COMMENT   *)
(* the parenthesized suffix without its parentheses; the row 2024-01-10,   *)
(* "XXXX-00000000 (1 of 1 repayment)", Principal, (0.00), 100.00 gives the *)
(* header "2024-01-10 * XXXX-00000000  ; 1 of 1 repayment" and one posting *)
(* to the funds account with sign "-", amount 100.00, comment Principal.   *)

C7_RepaymentHeader ==
    (/\ pc \in {"loop", "sep"}
     /\ Branch(block) = "default"
     /\ EndsWith(block.title, StrRepaymentEnd)
     /\ Contains(block.title, <<" ", "(">>)) =>
        LET i         == RFind(block.title, <<" ", "(">>)
            narration == TrimStartMatches(SubSeq(block.title, 1, i - 1), StrRevert)
            comment   == SubSeq(block.title, i + 2, Len(block.title) - 1)
        IN  /\ LastHeader.text = block.date \o StrStar \o narration \o StrSemi \o comment
            /\ (/\ pc = "sep"
                /\ block = [date |-> Date1, title |-> TitleRepayment, cmt |-> StrPrincipal,
                            dr |-> StrParenZero, cr |-> Amt100, total |-> Total900]
                /\ Len(out) >= 3
                /\ IsHeader(out[Len(out) - 2])) =>
                   /\ LastHeader.text = ExpectedHeaderRepayment
                   /\ Last(out).acc = FUNDS
                   /\ Last(out).sign = <<"-">>
                   /\ Last(out).amt = Amt100
                   /\ Last(out).cmt = StrPrincipal

(* C8: for a title that contains "invested" the header line is             *)
(* DATE * NARRATION  ; COMMENT with NARRATION the text after the last      *)
(* "into " and COMMENT the text before the first ": "; the title           *)
(* "Auto Investment: invested 500 into ABCD-12345678" gives the header     *)
(* "2024-01-10 * ABCD-12345678  ; Auto Investment".                        *)

DepositRows == {i \in 1..Len(rows) : InputRow(i).title = StrDeposit}

DepositTransactions ==
    {j \in 1..(Len(out) - 3) :
        /\ IsHeader(out[j])
        /\ IsBalance(out[j + 1])
        /\ IsPay(out[j + 2])
        /\ out[j + 2].acc = BANK
        /\ out[j + 2].sign = <<"-">>
        /\ out[j + 2].amt \in {InputRow(i).cr : i \in DepositRows}
        /\ out[j + 2].cmt = StrDeposit
        /\ out[j + 3] = BlankLine}

C9_DepositPosted ==
    (pc = "done" /\ Leftover = 0 /\ AllWellFormed) =>
        /\ Cardinality(DepositTransactions) = Cardinality(DepositRows)
        /\ \A i \in DepositRows : i < Len(rows) =>
              \E j \in DepositTransactions :
                  /\ j + 5 <= Len(out)
                  /\ IsHeader(out[j + 4])
                  /\ out[j + 5] = balance(InputRow(i + 1).total)

(* C10: a row whose title starts with "Adjustment for investment to " is   *)
(* accepted only with a zero debit: then it yields one posting to the      *)
(* funds account with sign "-", the credit as amount and the comment       *)
(* "Adjustment"; with a non-zero debit the run fails and no posting line   *)
(* is written for the row.                                                 *)

AdjustmentRows == {i \in 1..Len(rows) : StartsWith(InputRow(i).title, StrAdjustmentFor)}

AdjustmentPostings ==
    {j \in 1..Len(out) :
        /\ IsPay(out[j])
        /\ out[j].acc = FUNDS
        /\ out[j].sign = <<"-">>
        /\ out[j].amt \in {InputRow(i).cr : i \in AdjustmentRows}
        /\ out[j].cmt = StrAdjustment}

C10_AdjustmentOnlyZeroDebit ==
    /\ pc = "done" => \A i \in AdjustmentRows : IsZero(InputRow(i).dr)
    /\ (pc = "done" /\ Leftover = 0 /\ AllWellFormed) =>
          Cardinality(AdjustmentPostings) = Cardinality(AdjustmentRows)
    /\ (pc = "panicked" /\ err = "Only negative adjustment supported") =>
          ~IsPay(Last(out))

(* C14: every amount written on a posting line is the row's decimal string *)
(* with the enclosing parentheses removed, in every branch (invested,      *)
(* Deposit, Withdrawal, Adjustment, per-comment default): no posting line  *)
(* carries an amount with "(" or ")" in it.                               *)

HasParens(amt) == \E i \in 1..Len(amt) : amt[i] \in {"(", ")"}

C14_AmountsWithoutParens ==
    \A j \in 1..Len(out) : IsPay(out[j]) => ~HasParens(out[j].amt)

(* C13: on every posting line the pad between account and amount is        *)
(* LINE_WIDTH - indent_width - account length - sign length - amount       *)
(* length - 1, so that indent, account, pad, one space, sign and amount    *)
(* fill the 62 columns; when the pad would be negative the formatter fails *)
(* instead of writing a line, and no line with a wrapped or wrong pad is   *)
(* ever written.                                                           *)

C13_PadFillsLineOrFails ==
    \A j \in 1..Len(out) : IsPay(out[j]) =>
        /\ out[j].pad >= 0
        /\ INDENT_WIDTH + Len(out[j].acc) + out[j].pad + 1
              + Len(out[j].sign) + Len(out[j].amt) = LINE_WIDTH

---------------------------------------------------------------------------
(* The table locator *)

\* the 1-based indices at which a header ends: the line "Balance (RM)", or
\* the line "(RM)" right after the line "Balance"
HeaderEnds(lines) ==
    {i \in 1..Len(lines) : lines[i] = HeaderOneLine}
    \cup {i \in 2..Len(lines) : lines[i - 1] = StrBalance /\ lines[i] = StrRM}

\* the 1-based indices of the lines "Important!"
BannerLines(lines) == {i \in 1..Len(lines) : lines[i] = StrImportant}

\* a header with a banner after it
Delimited(lines) == \E h \in HeaderEnds(lines), e \in BannerLines(lines) : h < e

\* the lines after the first header and before the last banner
TableBetween(lines) ==
    LET h == CHOOSE i \in HeaderEnds(lines) : \A j \in HeaderEnds(lines) : i <= j
        e == CHOOSE i \in BannerLines(lines) : \A j \in BannerLines(lines) : i >= j
    IN  SubSeq(lines, h + 1, e - 1)

\* the table is looked for in the lines of the document
Locating == pc = "extract_text" /\ ~cache.some

(* C11: the table start is found in both header layouts, "Balance" and the *)
(* parenthesized commodity on one line and on two consecutive lines; in    *)
(* both the returned table is exactly the lines after the header and       *)
(* before the line "Important!".                                           *)

C11_BothHeaderLayouts ==
    [][(Locating /\ Delimited(pdf)) =>
          (pc' = "start" /\ text' = TableBetween(pdf))]_vars

(* C12: when the lines of the document lack the start marker or the end    *)
(* marker (the end marker without a start marker included), the location   *)
(* of the table fails fatally: nothing is written to the output, no cache  *)
(* file is written, and the run does not go on after the failure.          *)

C12_MissingMarkerIsFatal ==
    [][/\ (Locating /\ (HeaderEnds(pdf) = {} \/ BannerLines(pdf) = {})) =>
             (pc' = "panicked" /\ out' = <<>> /\ cache' = None)
       /\ pc # "panicked"]_vars

C12_Witness ==
    /\ pc = "panicked"
    /\ err = "called Option::unwrap() on a None value"
    /\ HeaderEnds(pdf) = {}
    /\ BannerLines(pdf) # {}
    /\ out = <<>>
    /\ cache = None

---------------------------------------------------------------------------
(* The row extractor *)

Digits == {"0", "1", "2", "3", "4", "5", "6", "7", "8", "9"}

\* a decimal amount: a digit, digits and commas, a point and two digits,
\* with or without parentheses around it
LooksLikeAmount(l) ==
    LET a == IF Len(l) >= 2 /\ l[1] = "(" /\ l[Len(l)] = ")"
             THEN SubSeq(l, 2, Len(l) - 1) ELSE l
        n == Len(a)
    IN  /\ n >= 4
        /\ a[1] \in Digits
        /\ \A i \in 1..(n - 3) : a[i] \in Digits \cup {","}
        /\ a[n - 2] = "."
        /\ a[n - 1] \in Digits
        /\ a[n] \in Digits

\* title and comment out of the title line l
TitleOf(l) == IF SplitOnce(l, StrBars) = <<>> THEN l ELSE SplitOnce(l, StrBars)[1]

CommentOf(l) == IF SplitOnce(l, StrBars) = <<>> THEN <<>> ELSE SplitOnce(l, StrBars)[2]

\* extract_row is called in this step, on n lines or more that start with a date
ReadsRowOf(n) ==
    /\ pos' # pos
    /\ pos + n - 1 <= Len(text)
    /\ Contains(text[pos], <<"-">>)

(* C15: when the line after the title line does not look like a decimal    *)
(* amount, extract_row appends it to the title with one space, takes the   *)
(* next three lines as debit, credit and balance, splits title and comment *)
(* on " || " in the merged text and consumes 6 lines; when the line looks  *)
(* like a decimal amount nothing is merged, it is the debit and the row    *)
(* consumes 5 lines. This holds for every continuation text, one with a    *)
(* "." in it included.                                                     *)

C15_MergeByAmountShape ==
    [][/\ (ReadsRowOf(6) /\ ~LooksLikeAmount(text[pos + 2])) =>
             LET merged == text[pos + 1] \o <<" ">> \o text[pos + 2]
             IN  /\ row' = Some([date |-> text[pos], title |-> TitleOf(merged),
                                 cmt |-> CommentOf(merged), dr |-> text[pos + 3],
                                 cr |-> text[pos + 4], total |-> text[pos + 5]])
                 /\ pos' = pos + 6
       /\ (ReadsRowOf(5) /\ LooksLikeAmount(text[pos + 2])) =>
             /\ row' = Some([date |-> text[pos], title |-> TitleOf(text[pos + 1]),
                             cmt |-> CommentOf(text[pos + 1]), dr |-> text[pos + 2],
                             cr |-> text[pos + 3], total |-> text[pos + 4]])
             /\ pos' = pos + 5]_vars

---------------------------------------------------------------------------
(* Header and posting of a transaction *)

(* C16: for every title the shape header() gives the header line and the   *)
(* posting branch of main() agree: a transaction with the institution      *)
(* narration in its header (Deposit and Withdrawal titles) posts to the    *)
(* bank account, a transaction with the "invested" narration posts to the  *)
(* funds account through the invested branch, and no title and             *)
(* debit/credit combination gets the header of one shape and the posting   *)
(* of another.                                                             *)

C16_HeaderAndPostingAgree ==
    [][(pc = "head" /\ row.some) =>
          LET b  == row.val
              sh == HeaderShape(b.title)
          IN  /\ out'[Len(out) + 1] = header(b.date, b.title)
              /\ sh = "institution" =>
                    /\ Branch(b) \in {"deposit", "withdrawal"}
                    /\ pc' = "sep"
                    /\ IsPay(Last(out')) /\ Last(out').acc = BANK
              /\ sh = "invested" =>
                    /\ Branch(b) = "invested"
                    /\ pc' = "sep"
                    /\ Last(out') = pay(FUNDS, <<>>, b.dr, SplitFirst(b.title, StrColon))
              /\ Branch(b) = "invested" => sh = "invested"
              /\ Branch(b) \in {"deposit", "withdrawal"} => sh = "institution"]_vars

---------------------------------------------------------------------------
(* Termination *)

(* C17: for every finite table the main loop terminates, in success or in  *)
(* a fatal failure: the read cursor only moves forward, every call of      *)
(* extract_row that returns a row has consumed at least 5 lines, and with  *)
(* an empty table the loop body never runs, nothing is written and the run *)
(* succeeds.                                                               *)

\* the run has ended, and in success when the table has no line
Terminated == pc \in {"done", "panicked"} /\ (text = <<>> => pc = "done")

C17_MainTerminates ==
    /\ <>Terminated
    /\ [][/\ pos' >= pos
          /\ (pos' # pos /\ row'.some) => pos' >= pos + 5]_vars
    /\ [](text = <<>> => (pc \in {"start", "head", "done"} /\ ~row.some /\ out = <<>>))

C17_Witness ==
    /\ pc = "done"
    /\ Len(rows) = MaxRows
    /\ pos = Len(text) + 1
    /\ Len(SelectSeq(out, IsHeader)) = MaxRows

---------------------------------------------------------------------------
(* The pages of the document *)

\* the lines of the pages up to page n that have a text, in ascending page
\* number
RECURSIVE LinesUpTo(_)
LinesUpTo(n) ==
    IF n = 0 THEN <<>>
    ELSE LinesUpTo(n - 1) \o (IF pages[n].ok THEN PageLines(pages[n].text) ELSE <<>>)

\* the pages that have no text
FailedPages == {p \in 1..Len(pages) : ~pages[p].ok}

(* C18: the pages are extracted in parallel, and the lines get_pdf_text     *)
(* returns are the concatenation of the lines of the pages in ascending    *)
(* page number, whatever order the extractions start and finish in: lines  *)
(* of two pages are not interleaved, and the result is the same on every   *)
(* run over the same document.                                             *)

C18_PagesInAscendingOrder ==
    pc \in {"pdf2text", "extract_text", "panicked"} =>
        /\ pdf_text.text = LinesUpTo(Len(pages))
        /\ pc = "extract_text" => pdf = LinesUpTo(Len(pages))

C18_Witness ==
    /\ pc = "extract_text"
    /\ Len(pages) >= 2
    /\ FailedPages = {}
    /\ \E i \in 1..(Len(finished) - 1) : finished[i] > finished[i + 1]
    /\ \E p, q \in 1..Len(pages) : pages[p] # pages[q]
    /\ pdf = LinesUpTo(Len(pages))

(* C19: when the extraction of pages fails, for any number of failed pages *)
(* from 1 upward, pdf2text reports at most the first 10 errors and returns *)
(* the lines of the pages that were extracted; a failed page does not end  *)
(* the run.                                                                *)

C19_PageErrorsAreReported ==
    [][(pc = "pdf2text" /\ FailedPages # {}) =>
          /\ pc' = "extract_text"
          /\ pdf' = LinesUpTo(Len(pages))
          /\ Len(reported') <= 1 + ErrorsShown]_vars
====
